---- MODULE Spec2Model ----
(***************************************************************************)
(* Model of the generic CRUD controller genericObjectDBCtrl[T] of          *)
(* src/mongodb/genericrud.go over one MongoDB collection.                  *)
(*                                                                         *)
(* The record type T is instantiated with a struct of four fields,         *)
(*   ID (bson "_id"), A (bson "a"), CreatedAt (bson "created_at"),         *)
(*   UpdatedAt (bson "updated_at"),                                        *)
(* none of them tagged omitempty, so bson.Marshal of a record never fails  *)
(* and writes all four keys.  Time is counted in clock ticks; a BSON       *)
(* DateTime holds whole milliseconds of TicksPerMs ticks each.             *)
(*                                                                         *)
(* The collection handle c.db is the external store.  Its calls are        *)
(* modelled by what the MongoDB server does with the filter and update     *)
(* documents the controller builds; each call may also fail as a whole     *)
(* (network, cancelled context, server error), which is the input ok.      *)
(* Selector maps are non-empty: with an empty map the controller leaves    *)
(* its filter a nil bson.D, whose handling is the driver's and is not      *)
(* modelled.  Index enforcement is not modelled; a write the server        *)
(* rejects is one of the failures of ok = FALSE.                           *)
(***************************************************************************)
EXTENDS Integers, Sequences, FiniteSets, TLC

\* ---------------------------------------------------------------- bounds
MaxClock == 2
TicksPerMs == 2
MaxTrail == 2

\* the identifiers and the values of field A
Ids == {1, 2}
Vals == {0, 1}
\* values a caller may have left in a timestamp field: the zero time and a
\* time later than any the clock reaches (and not on a millisecond boundary)
CallerTimes == {0, MaxClock + 1}
Ctxs == {"ctx"}
Background == "context.Background"

\* ------------------------------------------------------- BSON conversion
\* time.Time -> BSON DateTime (milliseconds), as bson.Marshal encodes it
ToDateTime(t) == t \div TicksPerMs
\* BSON DateTime -> time.Time, as Decode builds it
FromDateTime(ms) == ms * TicksPerMs

\* record types
Records == [ID : Ids, A : Vals, CreatedAt : CallerTimes, UpdatedAt : {MaxClock + 1}]

\* bson.Marshal(item): the document of a record
Marshal(item) ==
    [k \in {"_id", "a", "created_at", "updated_at"} |->
        CASE k = "_id" -> item.ID
          [] k = "a" -> item.A
          [] k = "created_at" -> ToDateTime(item.CreatedAt)
          [] k = "updated_at" -> ToDateTime(item.UpdatedAt)]

\* Decode with the bson tags of the two timestamps exchanged
MutDecodeSwapTimes(doc) ==
    [ID |-> doc["_id"], A |-> doc["a"],
     CreatedAt |-> FromDateTime(doc["updated_at"]),
     UpdatedAt |-> FromDateTime(doc["created_at"])]

\* SingleResult.Decode / Cursor.Decode: the record of a document
Decode(doc) ==
    [ID |-> doc["_id"], A |-> doc["a"],
     CreatedAt |-> FromDateTime(doc["created_at"]),
     UpdatedAt |-> FromDateTime(doc["updated_at"])]

\* bson.Marshal(attrs) then bson.Unmarshal into bson.M: the attribute map as
\* a document; a time.Time value becomes a DateTime
MarshalAttrs(attrs) ==
    [k \in DOMAIN attrs |->
        IF k = "updated_at" THEN ToDateTime(attrs[k]) ELSE attrs[k]]

\* ------------------------------------------------------------- selectors
SelKeys == {"_id", "a"}
SelVals(k) == IF k = "_id" THEN Ids ELSE Vals
\* the non-empty selector maps
Selectors ==
    {s \in UNION {[K -> Ids \cup Vals] : K \in (SUBSET SelKeys) \ {{}}} :
        \A k \in DOMAIN s : s[k] \in SelVals(k)}
\* the attribute maps of UpdateAttributes; a nil map has nil = TRUE
AttrKeys == {"a", "updated_at"}
AttrMaps ==
    {m \in UNION {[K -> Vals \cup {MaxClock + 1}] : K \in SUBSET AttrKeys} :
        \A k \in DOMAIN m : m[k] \in (IF k = "a" THEN Vals ELSE {MaxClock + 1})}
\* the key maps of CreateIndex: field -> direction
IndexMaps == UNION {[K -> {1, -1}] : K \in (SUBSET SelKeys) \ {{}}}

\* the orders in which `for k, v := range sels` may visit the keys of a map
RangeOrders(m) ==
    {s \in [1..Cardinality(DOMAIN m) -> DOMAIN m] :
        \A i, j \in DOMAIN s : i # j => s[i] # s[j]}

\* var filter bson.D; for k, v := range sels { filter = append(filter, bson.E{k, v}) }
RECURSIVE AppendFilter(_, _, _)
AppendFilter(filter, sels, order) ==
    IF order = <<>> THEN filter
    ELSE AppendFilter(Append(filter, [Key |-> Head(order), Value |-> {sels[Head(order)]}]),
                      sels, Tail(order))
BuildFilter(sels, order) == AppendFilter(<<>>, sels, order)
\* one of the orders: a filter matches the same documents in every order
RECURSIVE OrderOf(_)
OrderOf(keys) ==
    IF keys = {} THEN <<>>
    ELSE LET k == CHOOSE k \in keys : TRUE IN <<k>> \o OrderOf(keys \ {k})
SomeOrder(m) == OrderOf(DOMAIN m)

\* bson.D{bson.E{Key: "_id", Value: id}}
IdFilter(id) == <<[Key |-> "_id", Value |-> {id}]>>
\* bson.D{bson.E{}}: one element with the empty key and a nil value
EmptyElemFilter == <<[Key |-> "", Value |-> {}]>>

\* ------------------------------------------------------- the store (c.db)
\* the value of a field of a document: {} when the field is missing (null)
FieldOf(doc, k) == IF k \in DOMAIN doc THEN {doc[k]} ELSE {}
\* a document matches a filter when it matches every element of it (AND)
Matches(doc, filter) ==
    \A i \in DOMAIN filter : FieldOf(doc, filter[i].Key) = filter[i].Value
Matching(c, filter) == {d \in c : Matches(d, filter)}

\* $set that spares the created_at of the stored document
MutSetFieldsKeepCreated(doc, update) ==
    [k \in DOMAIN doc \cup DOMAIN update |->
        IF k \in DOMAIN update /\ ~(k = "created_at" /\ k \in DOMAIN doc)
        THEN update[k] ELSE doc[k]]

\* {"$set": update} applied to one document
SetFields(doc, update) ==
    [k \in DOMAIN doc \cup DOMAIN update |->
        IF k \in DOMAIN update THEN update[k] ELSE doc[k]]

\* the document FindOne picks among the matching ones: the store's first
FirstOf(S) == CHOOSE d \in S : \A e \in S : d["_id"] <= e["_id"]

\* the documents of S in the order a cursor yields them
RECURSIVE CursorBatch(_)
CursorBatch(S) ==
    IF S = {} THEN <<>> ELSE <<FirstOf(S)>> \o CursorBatch(S \ {FirstOf(S)})

\* error values
Nil == "nil"
ErrNoDocuments == "mongo.ErrNoDocuments"
ErrDuplicateKey == "WriteException: duplicate key"
ErrImmutableId == "WriteException: immutable field _id"
ErrStore == "store failure"
ErrPanic == "panic: assignment to entry in nil map"

\* c.db.InsertOne: the _id index of the collection is unique
InsertOne(c, doc, ok) ==
    IF ~ok THEN [coll |-> c, err |-> ErrStore]
    ELSE IF \E d \in c : d["_id"] = doc["_id"]
         THEN [coll |-> c, err |-> ErrDuplicateKey]
         ELSE [coll |-> c \cup {doc}, err |-> Nil]

\* FindOne that ignores its filter
MutFindOneFirst(c, filter, ok) ==
    IF ~ok THEN [doc |-> {}, err |-> ErrStore]
    ELSE IF c = {} THEN [doc |-> {}, err |-> ErrNoDocuments]
    ELSE [doc |-> {FirstOf(c)}, err |-> Nil]

\* c.db.FindOne(ctx, filter): the first matching document, or ErrNoDocuments
FindOne(c, filter, ok) ==
    IF ~ok THEN [doc |-> {}, err |-> ErrStore]
    ELSE IF Matching(c, filter) = {}
         THEN [doc |-> {}, err |-> ErrNoDocuments]
         ELSE [doc |-> {FirstOf(Matching(c, filter))}, err |-> Nil]

\* UpdateOne with upsert: zero matches insert the update document
MutUpdateOneUpsert(c, filter, update, ok) ==
    IF ~ok THEN [coll |-> c, err |-> ErrStore]
    ELSE IF Matching(c, filter) = {} THEN [coll |-> c \cup {update}, err |-> Nil]
    ELSE LET d == FirstOf(Matching(c, filter)) IN
         IF "_id" \in DOMAIN update /\ update["_id"] # d["_id"]
         THEN [coll |-> c, err |-> ErrImmutableId]
         ELSE [coll |-> (c \ {d}) \cup {SetFields(d, update)}, err |-> Nil]

\* c.db.UpdateOne(ctx, filter, {"$set": update}): no upsert; zero matches
\* is a success; $set of a different _id is rejected by the server
UpdateOne(c, filter, update, ok) ==
    IF ~ok THEN [coll |-> c, err |-> ErrStore]
    ELSE IF Matching(c, filter) = {} THEN [coll |-> c, err |-> Nil]
    ELSE LET d == FirstOf(Matching(c, filter)) IN
         IF "_id" \in DOMAIN update /\ update["_id"] # d["_id"]
         THEN [coll |-> c, err |-> ErrImmutableId]
         ELSE [coll |-> (c \ {d}) \cup {SetFields(d, update)}, err |-> Nil]

\* UpdateMany that stops after the first matching document
MutUpdateManyFirst(c, filter, update, ok, done) ==
    LET all == IF ok THEN Matching(c, filter) ELSE done \cap Matching(c, filter)
        hit == IF all = {} THEN {} ELSE {FirstOf(all)} IN
    [coll |-> (c \ hit) \cup {SetFields(d, update) : d \in hit},
     err |-> IF ok THEN Nil ELSE ErrStore,
     n |-> IF ok THEN Cardinality(all) ELSE 0]

\* c.db.UpdateMany(ctx, filter, {"$set": update}): every matching document;
\* a call that fails may have updated the documents `done` before failing
UpdateMany(c, filter, update, ok, done) ==
    LET hit == IF ok THEN Matching(c, filter) ELSE done \cap Matching(c, filter) IN
    [coll |-> (c \ hit) \cup {SetFields(d, update) : d \in hit},
     err |-> IF ok THEN Nil ELSE ErrStore,
     n |-> IF ok THEN Cardinality(hit) ELSE 0]

\* DeleteOne that reports a delete of nothing as an error
MutDeleteOneStrict(c, filter, ok) ==
    IF ~ok THEN [coll |-> c, err |-> ErrStore]
    ELSE IF Matching(c, filter) = {} THEN [coll |-> c, err |-> ErrNoDocuments]
    ELSE [coll |-> c \ {FirstOf(Matching(c, filter))}, err |-> Nil]

\* c.db.DeleteOne(ctx, filter): at most one matching document
DeleteOne(c, filter, ok) ==
    IF ~ok THEN [coll |-> c, err |-> ErrStore]
    ELSE IF Matching(c, filter) = {} THEN [coll |-> c, err |-> Nil]
    ELSE [coll |-> c \ {FirstOf(Matching(c, filter))}, err |-> Nil]

\* c.db.DeleteMany(ctx, filter): every matching document; a call that fails
\* may have removed the documents `done` before failing
DeleteMany(c, filter, ok, done) ==
    LET hit == IF ok THEN Matching(c, filter) ELSE done \cap Matching(c, filter) IN
    [coll |-> c \ hit, err |-> IF ok THEN Nil ELSE ErrStore]

\* c.db.Find(ctx, filter): a cursor over the matching documents
FindCursor(c, filter, ok) ==
    IF ok THEN [batch |-> CursorBatch(Matching(c, filter)), err |-> Nil]
    ELSE [batch |-> <<>>, err |-> ErrStore]

\* ------------------------------------------------------------------ state
\* coll:  the documents of the collection behind c.db
\* clock: the wall clock as time.Now() read it last, in ticks
\* last:  the operation that returned last: the identifier and the record
\*        (arg) it was called with, the record as the call left it (item),
\*        what it returned, the store calls it made, and n, the MatchedCount
\*        of UpdateMany, which the controller drops
\* trail: the writes (Create, Update, Delete) made on the identifier of `last`
\*        right before it, most recent first, each of which returned no
\*        error, back to the latest Create or Delete (at most MaxTrail)
VARIABLES coll, clock, last, trail
vars == <<coll, clock, last, trail>>

NoOp ==
    [op |-> "none", ctx |-> Background, id |-> {}, arg |-> {}, item |-> {}, err |-> Nil,
     res |-> <<>>, resNil |-> TRUE, exist |-> FALSE, name |-> <<>>, calls |-> <<>>,
     n |-> 0]

Call(fn, ctx) == [fn |-> fn, ctx |-> ctx]

\* the trail of a new operation on the identifiers ids ({} when it has none)
Take(s, n) == IF Len(s) <= n THEN s ELSE SubSeq(s, 1, n)
NextTrail(ids) ==
    IF ids # {} /\ last.id = ids /\ last.err = Nil
    THEN IF last.op \in {"Create", "Delete"} THEN Take(<<last.op>>, MaxTrail)
         ELSE IF last.op = "Update" THEN Take(<<last.op>> \o trail, MaxTrail)
         ELSE <<>>
    ELSE <<>>

Init ==
    /\ coll = {}
    /\ clock = 0
    /\ last = NoOp
    /\ trail = <<>>

\* time.Now(): the wall clock never runs backwards
Now == clock..MaxClock

\* Create: CreatedAt and UpdatedAt set to now by reflection
StampCreate(item, now) == [item EXCEPT !.CreatedAt = now, !.UpdatedAt = now]
\* Update stamping both timestamps, as Create does
MutStampUpdateBoth(item, now) == [item EXCEPT !.CreatedAt = now, !.UpdatedAt = now]

\* Update: UpdatedAt set to now by reflection
StampUpdate(item, now) == [item EXCEPT !.UpdatedAt = now]
\* UpdateAttributes: attrs["updated_at"] = time.Now()
StampAttrs(attrs, now) ==
    [k \in DOMAIN attrs \cup {"updated_at"} |->
        IF k = "updated_at" THEN now ELSE attrs[k]]

\* the context CreateIndex hands to Indexes().CreateOne
IndexCtx(ctx) == Background

Create(ctx, r, now, ok) ==
    LET item == StampCreate(r, now)
        out == InsertOne(coll, Marshal(item), ok)
    IN /\ coll' = out.coll
       /\ last' = [NoOp EXCEPT !.op = "Create", !.ctx = ctx, !.id = {item.ID}, !.arg = {r},
                                !.item = {item}, !.err = out.err,
                                !.calls = <<Call("InsertOne", ctx)>>]
       /\ trail' = NextTrail({item.ID})
       /\ clock' = now

Get(ctx, id, ok) ==
    LET out == FindOne(coll, IdFilter(id), ok)
    IN /\ last' = [NoOp EXCEPT !.op = "Get", !.ctx = ctx, !.id = {id},
                                !.err = out.err,
                                !.res = IF out.err = Nil
                                        THEN <<Decode(FirstOf(out.doc))>> ELSE <<>>,
                                !.calls = <<Call("FindOne", ctx)>>]
       /\ trail' = NextTrail({id})
       /\ UNCHANGED <<coll, clock>>

\* what Find returns: (result, err)
FindResult(c, sels, order, ok) ==
    LET out == FindOne(c, BuildFilter(sels, order), ok)
    IN [res |-> IF out.err = Nil THEN <<Decode(FirstOf(out.doc))>> ELSE <<>>,
        err |-> out.err]

Find(ctx, sels, order, ok) ==
    LET out == FindResult(coll, sels, order, ok)
    IN /\ last' = [NoOp EXCEPT !.op = "Find", !.ctx = ctx, !.err = out.err,
                                !.res = out.res,
                                !.calls = <<Call("FindOne", ctx)>>]
       /\ trail' = NextTrail({})
       /\ UNCHANGED <<coll, clock>>

\* Exists without the errors.Is(err, mongo.ErrNoDocuments) branch
MutExistsResultPropagate(found) ==
    IF found.err # Nil
    THEN [res |-> <<>>, exist |-> FALSE, err |-> found.err]
    ELSE [res |-> found.res, exist |-> TRUE, err |-> Nil]

\* what Exists returns from what Find returned: (result, exist, err)
ExistsResult(found) ==
    IF found.err # Nil
    THEN IF found.err = ErrNoDocuments
         THEN [res |-> <<>>, exist |-> FALSE, err |-> Nil]
         ELSE [res |-> <<>>, exist |-> FALSE, err |-> found.err]
    ELSE [res |-> found.res, exist |-> TRUE, err |-> Nil]

Exists(ctx, sels, order, ok) ==
    LET out == ExistsResult(FindResult(coll, sels, order, ok))
    IN /\ last' = [NoOp EXCEPT !.op = "Exists", !.ctx = ctx, !.err = out.err,
                                !.res = out.res, !.exist = out.exist,
                                !.calls = <<Call("FindOne", ctx)>>]
       /\ trail' = NextTrail({})
       /\ UNCHANGED <<coll, clock>>

Update(ctx, id, r, now, ok) ==
    LET item == StampUpdate(r, now)
        out == UpdateOne(coll, IdFilter(id), Marshal(item), ok)
    IN /\ coll' = out.coll
       /\ last' = [NoOp EXCEPT !.op = "Update", !.ctx = ctx, !.id = {id}, !.arg = {r},
                                !.item = {item}, !.err = out.err,
                                !.calls = <<Call("UpdateOne", ctx)>>]
       /\ trail' = NextTrail({id})
       /\ clock' = now

\* attrs is [nil |-> BOOLEAN, m |-> the map]; writing a key of a nil map panics
UpdateAttributes(ctx, sels, order, attrs, now, ok, done) ==
    LET filter == BuildFilter(sels, order)
        out == UpdateMany(coll, filter, MarshalAttrs(StampAttrs(attrs.m, now)), ok, done)
    IN IF attrs.nil
       THEN /\ last' = [NoOp EXCEPT !.op = "UpdateAttributes", !.ctx = ctx,
                                     !.err = ErrPanic]
            /\ trail' = NextTrail({})
            /\ UNCHANGED <<coll, clock>>
       ELSE /\ coll' = out.coll
            /\ last' = [NoOp EXCEPT !.op = "UpdateAttributes", !.ctx = ctx,
                                     !.err = out.err, !.n = out.n,
                                     !.calls = <<Call("UpdateMany", ctx)>>]
            /\ trail' = NextTrail({})
            /\ clock' = now

Delete(ctx, id, ok) ==
    LET out == DeleteOne(coll, IdFilter(id), ok)
    IN /\ coll' = out.coll
       /\ last' = [NoOp EXCEPT !.op = "Delete", !.ctx = ctx, !.id = {id},
                                !.err = out.err,
                                !.calls = <<Call("DeleteOne", ctx)>>]
       /\ trail' = NextTrail({id})
       /\ UNCHANGED clock

DeleteRange(ctx, sels, order, ok, done) ==
    LET out == DeleteMany(coll, BuildFilter(sels, order), ok, done)
    IN /\ coll' = out.coll
       /\ last' = [NoOp EXCEPT !.op = "DeleteRange", !.ctx = ctx, !.err = out.err,
                                !.calls = <<Call("DeleteMany", ctx)>>]
       /\ trail' = NextTrail({})
       /\ UNCHANGED clock

\* results := []T{}; for cursor.Next(ctx) { decode; results = append(results, result) }
\* over the first n documents the cursor yields before Next returns false
RECURSIVE AppendResults(_, _, _)
AppendResults(results, batch, n) ==
    IF n = 0 \/ batch = <<>> THEN results
    ELSE AppendResults(Append(results, Decode(Head(batch))), Tail(batch), n - 1)

\* List declaring `var results []T`: nil until the first append
MutListResultNilSlice(cur, n) ==
    IF cur.err # Nil
    THEN [res |-> <<>>, resNil |-> TRUE, err |-> cur.err]
    ELSE [res |-> AppendResults(<<>>, cur.batch, n),
          resNil |-> AppendResults(<<>>, cur.batch, n) = <<>>, err |-> Nil]

\* what List and ListAll return from the cursor of c.db.Find: (results, err);
\* resNil tells a nil slice from an empty one
ListResult(cur, n) ==
    IF cur.err # Nil
    THEN [res |-> <<>>, resNil |-> TRUE, err |-> cur.err]
    ELSE [res |-> AppendResults(<<>>, cur.batch, n), resNil |-> FALSE, err |-> Nil]

\* n < the number of matching documents when cursor.Next fails on the way
ListAll(ctx, ok, n) ==
    LET cur == FindCursor(coll, EmptyElemFilter, ok)
        out == ListResult(cur, n)
    IN /\ n <= Len(cur.batch)
       /\ last' = [NoOp EXCEPT !.op = "ListAll", !.ctx = ctx, !.err = out.err,
                                !.res = out.res, !.resNil = out.resNil,
                                !.calls = <<Call("Find", ctx)>>]
       /\ trail' = NextTrail({})
       /\ UNCHANGED <<coll, clock>>

List(ctx, sels, order, ok, n) ==
    LET cur == FindCursor(coll, BuildFilter(sels, order), ok)
        out == ListResult(cur, n)
    IN /\ n <= Len(cur.batch)
       /\ last' = [NoOp EXCEPT !.op = "List", !.ctx = ctx, !.err = out.err,
                                !.res = out.res, !.resNil = out.resNil,
                                !.calls = <<Call("Find", ctx)>>]
       /\ trail' = NextTrail({})
       /\ UNCHANGED <<coll, clock>>

\* the index keys, in the order the map was ranged over; the generated index
\* name lists the keys in that order
CreateIndex(ctx, sels, order, unique, ok) ==
    LET indexKeys == BuildFilter(sels, order)
    IN /\ last' = [NoOp EXCEPT !.op = "CreateIndex", !.ctx = ctx,
                                !.err = IF ok THEN Nil ELSE ErrStore,
                                !.name = IF ok THEN indexKeys ELSE <<>>,
                                !.calls = <<Call("Indexes.CreateOne", IndexCtx(ctx))>>]
       /\ trail' = NextTrail({})
       /\ UNCHANGED <<coll, clock>>

AttrArgs == {[nil |-> FALSE, m |-> m] : m \in AttrMaps} \cup {[nil |-> TRUE, m |-> <<>>]}
\* the documents a failing multi-document write may have reached
Reached(sels, ok) ==
    IF ok THEN {{}} ELSE SUBSET Matching(coll, BuildFilter(sels, SomeOrder(sels)))

DoCreate == \E ctx \in Ctxs, r \in Records, now \in Now, ok \in BOOLEAN : Create(ctx, r, now, ok)
DoGet == \E ctx \in Ctxs, id \in Ids, ok \in BOOLEAN : Get(ctx, id, ok)
DoFind ==
    \E ctx \in Ctxs, sels \in Selectors, ok \in BOOLEAN :
        Find(ctx, sels, SomeOrder(sels), ok)
DoExists ==
    \E ctx \in Ctxs, sels \in Selectors, ok \in BOOLEAN :
        Exists(ctx, sels, SomeOrder(sels), ok)
DoUpdate ==
    \E ctx \in Ctxs, id \in Ids, r \in Records, now \in Now, ok \in BOOLEAN :
        Update(ctx, id, r, now, ok)
DoUpdateAttributes ==
    \E ctx \in Ctxs, sels \in Selectors, attrs \in AttrArgs, now \in Now, ok \in BOOLEAN :
        \E done \in Reached(sels, ok) :
            UpdateAttributes(ctx, sels, SomeOrder(sels), attrs, now, ok, done)
DoDelete == \E ctx \in Ctxs, id \in Ids, ok \in BOOLEAN : Delete(ctx, id, ok)
DoDeleteRange ==
    \E ctx \in Ctxs, sels \in Selectors, ok \in BOOLEAN :
        \E done \in Reached(sels, ok) :
            DeleteRange(ctx, sels, SomeOrder(sels), ok, done)
DoListAll == \E ctx \in Ctxs, ok \in BOOLEAN, n \in 0..Cardinality(Ids) : ListAll(ctx, ok, n)
DoList ==
    \E ctx \in Ctxs, sels \in Selectors, ok \in BOOLEAN, n \in 0..Cardinality(Ids) :
        List(ctx, sels, SomeOrder(sels), ok, n)
DoCreateIndex ==
    \E ctx \in Ctxs, sels \in IndexMaps, unique \in BOOLEAN, ok \in BOOLEAN :
        \E order \in RangeOrders(sels) : CreateIndex(ctx, sels, order, unique, ok)

\* every operation of the controller, in any order
Next ==
    \/ DoCreate \/ DoGet \/ DoFind \/ DoExists \/ DoUpdate \/ DoUpdateAttributes
    \/ DoDelete \/ DoDeleteRange \/ DoListAll \/ DoList \/ DoCreateIndex
Spec == Init /\ [][Next]_vars

\* the operations on one identifier
NextCrud == DoCreate \/ DoGet \/ DoUpdate \/ DoDelete
SpecCrud == Init /\ [][NextCrud]_vars

\* the operations on selectors, over collections that Create fills
NextQuery ==
    \/ DoCreate \/ DoFind \/ DoExists \/ DoUpdateAttributes
    \/ DoDeleteRange \/ DoListAll \/ DoList
SpecQuery == Init /\ [][NextQuery]_vars

\* ---------------------------------------------------------------- claims
\* the documents of c that match every entry of the selector map sels
Selected(c, sels) ==
    {d \in c : \A k \in DOMAIN sels : k \in DOMAIN d /\ d[k] = sels[k]}
\* the documents of c with identifier id
WithId(c, id) == {d \in c : d["_id"] = id}
\* a time cut to whole milliseconds, in ticks
WholeMs(t) == (t \div TicksPerMs) * TicksPerMs
\* the step is the call Exists(sels), ... with the store call succeeding or
\* not as ok tells; time.Now() read clock'
ExistsStep(sels, ok) ==
    /\ last'.op = "Exists"
    /\ \E ctx \in Ctxs : Exists(ctx, sels, SomeOrder(sels), ok)
UpdateAttributesStep(sels, m) ==
    /\ last'.op = "UpdateAttributes" /\ last'.err = Nil
    /\ last'.n = Cardinality(Selected(coll, sels))
    /\ \E ctx \in Ctxs :
          UpdateAttributes(ctx, sels, SomeOrder(sels), [nil |-> FALSE, m |-> m],
                           clock', TRUE, {})
ListStep(sels, n) ==
    /\ last'.op = "List"
    /\ \E ctx \in Ctxs : List(ctx, sels, SomeOrder(sels), TRUE, n)
ListAllStep(n) ==
    /\ last'.op = "ListAll"
    /\ \E ctx \in Ctxs : ListAll(ctx, TRUE, n)

\* the step is a call of Get on the identifier of the call before it
GetAfter(op) ==
    /\ last.op = op /\ last.err = Nil
    /\ last'.op = "Get" /\ last'.id = last.id

\* C1: a Get(I) right after a successful Create(R) with identifier I, its
\* lookup not failing in the store, returns no error and one record with
\* the ID and A of R.
C1_CreateThenGet ==
    [][(GetAfter("Create") /\ last'.err # ErrStore) =>
          /\ last'.err = Nil
          /\ Len(last'.res) = 1
          /\ \A r \in last.item :
                last'.res[1].ID = r.ID /\ last'.res[1].A = r.A]_vars
C1_Witness ==
    /\ last.op = "Get" /\ last.err = Nil /\ trail = <<"Create">>
    /\ Cardinality(coll) = 2

\* C2: Delete(I) whose store call does not fail returns no error whether or
\* not a document I exists, and a Get(I) right after it, its lookup not
\* failing in the store, returns ErrNoDocuments and no record.
C2_DeleteThenGet ==
    [][/\ (last'.op = "Delete" /\ last'.err # ErrStore) => last'.err = Nil
       /\ (GetAfter("Delete") /\ last'.err # ErrStore) =>
             (last'.err = ErrNoDocuments /\ last'.res = <<>>)]_vars
C2_Witness ==
    /\ last.op = "Get" /\ last.err = ErrNoDocuments /\ last.res = <<>>
    /\ trail = <<"Delete">> /\ coll # {}

\* C3: Exists(sels) returns (nil, false, nil) when no document matches every
\* entry of sels, (record, true, nil) with a matching record when one does,
\* (nil, false, err) with err non-nil when the lookup fails, and never the
\* not-found error.
C3_Exists ==
    [][\A sels \in Selectors, ok \in BOOLEAN :
          ExistsStep(sels, ok) =>
            /\ last'.err # ErrNoDocuments
            /\ (ok /\ Selected(coll, sels) = {}) =>
                  (last'.res = <<>> /\ ~last'.exist /\ last'.err = Nil)
            /\ (ok /\ Selected(coll, sels) # {}) =>
                  /\ last'.exist /\ last'.err = Nil /\ Len(last'.res) = 1
                  /\ \E d \in Selected(coll, sels) :
                        /\ last'.res[1].ID = d["_id"] /\ last'.res[1].A = d["a"]
                        /\ last'.res[1].CreatedAt = d["created_at"] * TicksPerMs
                        /\ last'.res[1].UpdatedAt = d["updated_at"] * TicksPerMs
            /\ ~ok => (last'.res = <<>> /\ ~last'.exist /\ last'.err # Nil)]_vars
C3_Witness ==
    /\ last.op = "Exists" /\ last.res = <<>> /\ ~last.exist /\ last.err = Nil
    /\ coll # {}

\* C4: Update(I, R) with no document I in the collection, its store call not
\* failing, returns no error and leaves the collection as it was.
C4_UpdateMissing ==
    [][(/\ last'.op = "Update" /\ last'.err # ErrStore
        /\ \A id \in last'.id : WithId(coll, id) = {}) =>
          (last'.err = Nil /\ coll' = coll)]_vars
C4_Witness ==
    /\ last.op = "Update" /\ last.err = Nil
    /\ \A id \in last.id : WithId(coll, id) = {}
    /\ coll # {}

\* the step is a successful Get(I) right after a successful Update(I, R')
\* that came right after a successful Create with identifier I
CreateUpdateGet ==
    /\ last.op = "Update" /\ last.err = Nil /\ trail = <<"Create">>
    /\ last'.op = "Get" /\ last'.id = last.id /\ last'.err = Nil

\* C5 as stated: after Create(R), Update(I, R'), Get(I), all succeeding, the
\* record returned equals R' and its UpdatedAt is greater than its CreatedAt.
C5_AsStated ==
    [][CreateUpdateGet =>
          /\ Len(last'.res) = 1
          /\ \A r \in last.item : last'.res[1] = r
          /\ last'.res[1].UpdatedAt > last'.res[1].CreatedAt]_vars

\* C5 amended: the record returned has the ID and A of R', the CreatedAt the
\* caller left in R' and the UpdatedAt Update stamped on R', both cut to
\* whole milliseconds, and its UpdatedAt is greater than its CreatedAt
\* exactly when the CreatedAt of R' lies in an earlier millisecond than the
\* time of the Update.
C5_RoundTrip ==
    [][CreateUpdateGet =>
          /\ Len(last'.res) = 1
          /\ \A r \in last.item :
                /\ last'.res[1].ID = r.ID /\ last'.res[1].A = r.A
                /\ last'.res[1].CreatedAt = WholeMs(r.CreatedAt)
                /\ last'.res[1].UpdatedAt = WholeMs(r.UpdatedAt)
                /\ r.UpdatedAt = clock
                /\ (last'.res[1].UpdatedAt > last'.res[1].CreatedAt) <=>
                      (r.CreatedAt \div TicksPerMs < clock \div TicksPerMs)]_vars
C5_Witness ==
    /\ last.op = "Get" /\ last.err = Nil /\ trail = <<"Update", "Create">>
    /\ Len(last.res) = 1
    /\ last.res[1].UpdatedAt <= last.res[1].CreatedAt

\* C6 as stated: every operation that reaches the store makes one store
\* call, failed or not, and passes it the context of its caller.
C6_AsStated ==
    (last.op # "none" /\ last.err # ErrPanic) =>
        (Len(last.calls) = 1 /\ \A i \in DOMAIN last.calls : last.calls[i].ctx = last.ctx)

\* C7: a successful UpdateAttributes(sels, attrs) sets, on every document
\* matching all entries of sels, each field of attrs to its value and
\* updated_at to the time of the call in milliseconds, whatever updated_at
\* attrs held; every other field and every other document stay as they
\* were; with no document matching it returns no error.
C7_Expected(d, sels, m, now) ==
    IF d \in Selected({d}, sels)
    THEN [k \in DOMAIN d |->
            IF k = "updated_at" THEN now \div TicksPerMs
            ELSE IF k \in DOMAIN m THEN m[k] ELSE d[k]]
    ELSE d
C7_UpdateAttributes ==
    [][/\ (last'.op = "UpdateAttributes" /\ last'.err \notin {ErrStore, ErrPanic}) =>
             last'.err = Nil
       /\ \A sels \in Selectors, m \in AttrMaps :
             UpdateAttributesStep(sels, m) =>
                coll' = {C7_Expected(d, sels, m, clock') : d \in coll}]_vars
C7_Witness ==
    /\ last.op = "UpdateAttributes" /\ last.err = Nil /\ last.n = 1
    /\ Cardinality(coll) = 2

\* C8: List and ListAll return a non-nil sequence whenever they return a nil
\* error; List whose store call does not fail returns an empty non-nil
\* sequence and a nil error when no document matches; ListAll whose store
\* call and cursor do not fail returns every document of the collection.
C8_List ==
    [][/\ (last'.op \in {"List", "ListAll"} /\ last'.err = Nil) => ~last'.resNil
       /\ \A sels \in Selectors, n \in 0..Cardinality(Ids) :
             (ListStep(sels, n) /\ Selected(coll, sels) = {}) =>
                (last'.res = <<>> /\ ~last'.resNil /\ last'.err = Nil)
       /\ ListAllStep(Cardinality(coll)) =>
                /\ last'.err = Nil /\ Len(last'.res) = Cardinality(coll)
                /\ {last'.res[i] : i \in DOMAIN last'.res} = {Decode(d) : d \in coll}]_vars
C8_Witness ==
    /\ last.op = "List" /\ last.err = Nil /\ last.res = <<>> /\ ~last.resNil
    /\ coll = {}

\* C9: Create leaves both CreatedAt and UpdatedAt of the caller's record at
\* the one time it read, whatever they held; Update leaves UpdatedAt at the
\* time it read and CreatedAt and every other field as the caller set them.
C9_Stamps ==
    /\ last.op = "Create" =>
          \A r \in last.arg :
             last.item = {[ID |-> r.ID, A |-> r.A,
                           CreatedAt |-> clock, UpdatedAt |-> clock]}
    /\ last.op = "Update" =>
          \A r \in last.arg :
             last.item = {[ID |-> r.ID, A |-> r.A,
                           CreatedAt |-> r.CreatedAt, UpdatedAt |-> clock]}
    /\ last.op \in {"Create", "Update"} => last.arg # {}
C9_Witness ==
    /\ last.op = "Update" /\ clock > 0
    /\ \E r \in last.arg, i \in last.item :
          /\ r.CreatedAt = MaxClock + 1 /\ r.UpdatedAt # clock
          /\ i.CreatedAt = MaxClock + 1 /\ i.UpdatedAt = clock

\* C10: a successful Update(I, R') right after a successful Create with
\* identifier I leaves the stored created_at at the CreatedAt the caller left
\* in R', in milliseconds, whatever time Create had stamped.
C10_UpdateReplacesCreatedAt ==
    [][(/\ last.op = "Create" /\ last.err = Nil
        /\ last'.op = "Update" /\ last'.id = last.id /\ last'.err = Nil) =>
          \A id \in last'.id, r \in last'.arg :
             /\ WithId(coll', id) # {}
             /\ \A d \in WithId(coll', id) :
                   d["created_at"] = r.CreatedAt \div TicksPerMs]_vars
C10_Witness ==
    /\ last.op = "Update" /\ last.err = Nil /\ trail = <<"Create">>
    /\ clock < TicksPerMs
    /\ \E r \in last.item, d \in coll :
          /\ d["_id"] = r.ID /\ r.CreatedAt = MaxClock + 1
          /\ d["created_at"] = (MaxClock + 1) \div TicksPerMs

====
